---- MODULE Spec2Model ----
(***************************************************************************)
(* Model of app/routes/authController.js: the signup, login, logout,      *)
(* password-update, password-reset and account-deletion handlers, run by  *)
(* concurrent clients against one user store, one mailer and one session  *)
(* per client.  Every store, session and mail call is a suspension point: *)
(* a handler is a chain of steps, one per callback.                       *)
(***************************************************************************)
EXTENDS Integers, Sequences, FiniteSets, TLC

(* ------------------------------ bounds -------------------------------- *)
MaxClients == 2
MaxRequests == 2
MaxUsers == 3
MaxCredits == 2
MaxTicks == 2

Clients == 1..MaxClients
Ids == 1..MaxUsers

(* ------------------------- optional fields ---------------------------- *)
\* A field that is undefined in the document is the empty sequence.
Absent == <<>>
Some(v) == <<v>>

(* ------------------------------ inputs -------------------------------- *)
\* Email addresses are sequences of characters.
EmailInputs ==
  { <<"a", "@", "x">>, <<"A", "@", "X">>, <<"b", "@", "x">>, <<"a", "x">> }

ToLower(ch) == CASE ch = "A" -> "a" [] ch = "X" -> "x" [] OTHER -> ch

\* validator's isEmail: one "@", with a local part and a domain around it.
isEmail(e) ==
  /\ Cardinality({i \in DOMAIN e : e[i] = "@"}) = 1
  /\ e[1] # "@"
  /\ e[Len(e)] # "@"

\* validator's normalizeEmail({ gmail_remove_dots: false }): lower-cases the
\* address and keeps every dot; an address that is no email is left as it is.
normalizeEmail(e) == IF isEmail(e) THEN [i \in DOMAIN e |-> ToLower(e[i])] ELSE e

\* Passwords are sequences of characters; len(8) wants at least 8 of them.
PwdA == <<"p", "a", "s", "s", "w", "o", "r", "d">>
PwdB == <<"p", "a", "s", "s", "w", "o", "r", "D">>
PwdShort == <<"s", "h", "o", "r", "t">>
PasswordInputs == {PwdA, PwdB, PwdShort}
MinPasswordLen == 8

MailOutcomes == {"ok", "selfsigned", "other"}

(* ----------------------------- responses ------------------------------ *)
Resp(status, msg) == [status |-> status, msg |-> msg, arg |-> Absent]
NoResp == [status |-> 0, msg |-> "", arg |-> Absent]

(* ------------------------------- time --------------------------------- *)
\* 60 * 60 * 1000 ms: the life of a reset token.
ResetTTL == 60 * 60 * 1000
\* The clock advances one token life at a time, so that a request can see a
\* token before, exactly at and after its expiry.
Tick == ResetTTL

VARIABLES
  now,        \* Date.now()
  store,      \* the User collection: _id -> document, or NoDoc
  session,    \* per client: the user the session is logged in as, or NoUser
  req,        \* per client: the request in progress (or the last one)
  nextId,     \* the _id the next "new User" gets
  nextToken,  \* the value the next randomBytes(16) returns
  started,    \* requests started since the initial state
  consumed,   \* tokens cleared by a completed reset
  issued      \* per _id: the tokens the reset requests saved for it, in order

vars == <<now, store, session, req, nextId, nextToken, started, consumed, issued>>

NoDoc == [email |-> Absent, password |-> Absent,
          passwordResetToken |-> Absent, passwordResetExpires |-> Absent,
          credits |-> Absent, reports |-> Absent]
NoUser == [id |-> 0, email |-> Absent]

\* "new User({ name, phone, creditCard, email, credits, reports })": no
\* password and no reset fields.
NewUser(email, credits, reports) ==
  [NoDoc EXCEPT !.email = Some(email), !.credits = credits, !.reports = reports]

IdleReq ==
  [ kind |-> "none", pc |-> "idle",
    email |-> Absent,      \* req.body.email after sanitize
    user |-> NoUser,       \* req.user
    errors |-> <<>>,       \* req.validationErrors(), <<>> for none
    credits |-> Absent,    \* req.body.credits as received
    newUser |-> NoDoc,     \* the document "new User" built
    token |-> 0,           \* req.params.token
    password |-> Absent,   \* req.body.password
    qnow |-> 0,            \* the Date.now() a query or an expiry was built from
    doc |-> 0,             \* _id of the document the handler holds, 0 if none
    newToken |-> 0,        \* the token createRandomToken resolved with
    resp |-> NoResp,       \* the response sent
    nsend |-> 0,           \* calls of res.json
    nexted |-> FALSE,      \* next(err) was called
    crashed |-> FALSE,     \* a callback threw and nothing caught it
    err |-> FALSE,         \* a store, session or mail call ended in an error
    saved |-> FALSE,       \* a save of this request has completed
    mails |-> 0,           \* calls of transporter.sendMail
    loggedIn |-> 0,        \* _id req.logIn succeeded with, 0 if none
    stale |-> FALSE ]      \* the token presented had been consumed before

Exists(s, id) == s[id] # NoDoc

(* ----------------------------- the store ------------------------------ *)
\* A query whose filter is lost: it matches every document.
FindByEmail_any(s, email) == {id \in Ids : Exists(s, id)}

\* findOne({ email }): the documents the query matches.
FindByEmail(s, email) == {id \in Ids : Exists(s, id) /\ s[id].email = Some(email)}

\* The query with .gte in place of .gt.
TokenQuery_gte(s, token, t) ==
  {id \in Ids : /\ Exists(s, id)
                /\ s[id].passwordResetToken = Some(token)
                /\ s[id].passwordResetExpires # Absent
                /\ s[id].passwordResetExpires[1] >= t}

\* findOne({ passwordResetToken: token }).where('passwordResetExpires').gt(t)
TokenQuery(s, token, t) ==
  {id \in Ids : /\ Exists(s, id)
                /\ s[id].passwordResetToken = Some(token)
                /\ s[id].passwordResetExpires # Absent
                /\ s[id].passwordResetExpires[1] > t}

(* ------------------------- request bookkeeping ------------------------ *)
CanStart(c) == req[c].pc \in {"idle", "done"} /\ started < MaxRequests

Begin(kind) == [IdleReq EXCEPT !.kind = kind]

\* The request of client c reaches the handler: the session middleware has
\* set req.user from the client's session.
Arrive(kind, c) == [Begin(kind) EXCEPT !.user = session[c]]

\* res.status(status).json(body) as the first response of the request.
Send(rq, response) == [rq EXCEPT !.resp = response, !.nsend = @ + 1, !.pc = "done"]

\* An error is swallowed: the handler stops with nothing more scheduled and
\* nothing sent.
Stop(rq) == [rq EXCEPT !.err = TRUE, !.pc = "done"]

\* next(err): the error goes to the generic error handler.
CallNext(rq) == [rq EXCEPT !.err = TRUE, !.nexted = TRUE, !.pc = "done"]

\* req.validationErrors(): the messages of the violated rules, in the order
\* of the asserts; the handler answers with the first.
Violations(rules) == SelectSeq(rules, LAMBDA r : ~r[1])
Messages(rules) == [i \in DOMAIN Violations(rules) |-> Violations(rules)[i][2]]

\* An answer with the message of the last violated rule.
FirstError_last(errors) == errors[Len(errors)]

\* "errors[0].msg"
FirstError(errors) == errors[1]

\* "if (errors) { return res.status(400).json({ msg: errors[0].msg }); }"
Invalid(rq, errors) == Send([rq EXCEPT !.errors = errors], Resp(400, FirstError(errors)))

(* ----------------------- POST /password/reset ------------------------- *)
postResetErrors(email) == Messages(<< <<isEmail(email), "Email is not valid">> >>)

\* A setter that keeps a token that is still outstanding.
SetResetFields_keepFirst(u, token, t) ==
  IF u.passwordResetToken # Absent THEN u
  ELSE [u EXCEPT !.passwordResetToken = Some(token),
                 !.passwordResetExpires = Some(t + ResetTTL)]

\* user.passwordResetToken = token; user.passwordResetExpires = Date.now() + 1 hour
SetResetFields(u, token, t) ==
  [u EXCEPT !.passwordResetToken = Some(token),
            !.passwordResetExpires = Some(t + ResetTTL)]

\* The handler up to the first store call: validation, createRandomToken,
\* setRandomToken's findOne is issued.  randomBytes(16) is taken to resolve,
\* with a value it never returned before.
postReset(c) ==
  /\ CanStart(c)
  /\ started' = started + 1
  /\ \E e \in EmailInputs :
       IF postResetErrors(e) # <<>>
       THEN /\ req' = [req EXCEPT ![c] =
                 Invalid(Arrive("postReset", c), postResetErrors(e))]
            /\ UNCHANGED nextToken
       ELSE /\ req' = [req EXCEPT ![c] =
                 [Arrive("postReset", c) EXCEPT !.email = Some(normalizeEmail(e)),
                                            !.newToken = nextToken,
                                            !.pc = "pr_findOne"]]
            /\ nextToken' = nextToken + 1
  /\ UNCHANGED <<now, store, session, nextId, consumed, issued>>

\* setRandomToken: the findOne callback.
postReset_findOne(c) ==
  /\ req[c].pc = "pr_findOne"
  /\ \/ \* the lookup rejects: .catch(err => err) swallows it
        req' = [req EXCEPT ![c] = Stop(@)]
     \/ /\ FindByEmail(store, req[c].email[1]) = {}
        /\ req' = [req EXCEPT ![c] =
             Send(@, [status |-> 401, msg |-> "Email not found", arg |-> req[c].email])]
     \/ \E id \in FindByEmail(store, req[c].email[1]) :
          req' = [req EXCEPT ![c] = [@ EXCEPT !.doc = id, !.qnow = now, !.pc = "pr_save"]]
  /\ UNCHANGED <<now, store, session, nextId, nextToken, started, consumed, issued>>

\* user.save().then(sendResetPasswordEmail).catch(err => err)
postReset_save(c) ==
  /\ req[c].pc = "pr_save"
  /\ \/ \* the save rejects: swallowed
        /\ req' = [req EXCEPT ![c] = Stop(@)]
        /\ UNCHANGED <<store, issued>>
     \/ /\ Exists(store, req[c].doc)
        /\ store' = [store EXCEPT ![req[c].doc] =
                       SetResetFields(@, req[c].newToken, req[c].qnow)]
        /\ issued' = [issued EXCEPT ![req[c].doc] = Append(@, req[c].newToken)]
        /\ req' = [req EXCEPT ![c] = [@ EXCEPT !.saved = TRUE, !.pc = "pr_mail"]]
     \/ \* the document was deleted meanwhile: the update matches nothing,
        \* and a driver that reports no error lets the chain go on
        /\ ~Exists(store, req[c].doc)
        /\ req' = [req EXCEPT ![c] = [@ EXCEPT !.saved = TRUE, !.pc = "pr_mail"]]
        /\ UNCHANGED <<store, issued>>
  /\ UNCHANGED <<now, session, nextId, nextToken, started, consumed>>

\* sendResetPasswordEmail: the first transporter.sendMail settles.
postReset_sendMail(c) ==
  /\ req[c].pc = "pr_mail"
  /\ \E o \in MailOutcomes :
       req' = [req EXCEPT ![c] =
         CASE o = "ok" -> Send([@ EXCEPT !.mails = @ + 1], Resp(200, "Email sent"))
           [] o = "selfsigned" -> [@ EXCEPT !.mails = @ + 1, !.pc = "pr_retry"]
           [] OTHER -> Stop([@ EXCEPT !.mails = @ + 1])]
  /\ UNCHANGED <<now, store, session, nextId, nextToken, started, consumed, issued>>

\* the retry with tls.rejectUnauthorized = false settles; its rejection
\* reaches the .catch(err => err) after user.save()
postReset_retryMail(c) ==
  /\ req[c].pc = "pr_retry"
  /\ \E o \in MailOutcomes :
       req' = [req EXCEPT ![c] =
         IF o = "ok" THEN Send([@ EXCEPT !.mails = @ + 1], Resp(200, "Email sent"))
                     ELSE Stop([@ EXCEPT !.mails = @ + 1])]
  /\ UNCHANGED <<now, store, session, nextId, nextToken, started, consumed, issued>>

(* --------------------- GET /password/reset/:token --------------------- *)
\* A client presents a token that was generated, or one that never was (0).
TokenInputs == 0..(nextToken - 1)

getResetToken(c) ==
  /\ CanStart(c)
  /\ started' = started + 1
  /\ \E t \in TokenInputs :
       req' = [req EXCEPT ![c] =
         [Arrive("getResetToken", c) EXCEPT !.token = t, !.qnow = now,
                                        !.stale = (t \in consumed),
                                        !.pc = "gt_exec"]]
  /\ UNCHANGED <<now, store, session, nextId, nextToken, consumed, issued>>

getResetToken_exec(c) ==
  /\ req[c].pc = "gt_exec"
  /\ \/ req' = [req EXCEPT ![c] = CallNext(@)]
     \/ /\ TokenQuery(store, req[c].token, req[c].qnow) = {}
        /\ req' = [req EXCEPT ![c] = Send(@, Resp(400, "Invalid or expired token"))]
     \/ /\ TokenQuery(store, req[c].token, req[c].qnow) # {}
        /\ req' = [req EXCEPT ![c] = Send(@, Resp(200, "Valid token"))]
  /\ UNCHANGED <<now, store, session, nextId, nextToken, started, consumed, issued>>

(* --------------------- POST /password/reset/:token -------------------- *)
postResetTokenErrors(password, confirmPassword) ==
  Messages(<< <<Len(password) >= MinPasswordLen,
                "Password must be at least 8 characters long.">>,
              <<confirmPassword = password, "Passwords must match.">> >>)

\* A completion that sets the password and leaves the reset fields.
ClearResetFields_keepToken(u, password) == [u EXCEPT !.password = Some(password)]

\* A completion that clears the token and forgets the expiry.
ClearResetFields_keepExpiry(u, password) ==
  [u EXCEPT !.password = Some(password), !.passwordResetToken = Absent]

\* user.password = req.body.password; user.passwordResetToken = undefined;
\* user.passwordResetExpires = undefined
ClearResetFields(u, password) ==
  [u EXCEPT !.password = Some(password),
            !.passwordResetToken = Absent,
            !.passwordResetExpires = Absent]

\* What transporter.sendMail can settle with: a mail without a recipient
\* ("to" undefined) is never delivered.
MailResults(to) == IF to = Absent THEN MailOutcomes \ {"ok"} ELSE MailOutcomes

\* Validation; resetPassword() builds its query with Date.now() and issues it.
postResetToken(c) ==
  /\ CanStart(c)
  /\ started' = started + 1
  /\ \E t \in TokenInputs, p \in PasswordInputs, cp \in PasswordInputs :
       req' = [req EXCEPT ![c] =
         IF postResetTokenErrors(p, cp) # <<>>
         THEN Invalid(Arrive("postResetToken", c), postResetTokenErrors(p, cp))
         ELSE [Arrive("postResetToken", c) EXCEPT !.token = t, !.password = Some(p),
                                              !.qnow = now,
                                              !.stale = (t \in consumed),
                                              !.pc = "pt_findOne"]]
  /\ UNCHANGED <<now, store, session, nextId, nextToken, consumed, issued>>

\* resetPassword: the query's .then callback.  On no match the callback
\* returns what res.json returns, the response object, and the promise
\* resolves with it: sendResetPasswordEmail is then called with an object
\* that is not falsy and has no email.
postResetToken_findOne(c) ==
  /\ req[c].pc = "pt_findOne"
  /\ \/ req' = [req EXCEPT ![c] = CallNext(@)]
     \/ /\ TokenQuery(store, req[c].token, req[c].qnow) = {}
        /\ req' = [req EXCEPT ![c] =
             [Send(@, Resp(400, "Invalid or expired token")) EXCEPT !.pc = "pt_mail"]]
     \/ \E id \in TokenQuery(store, req[c].token, req[c].qnow) :
          req' = [req EXCEPT ![c] =
            [@ EXCEPT !.doc = id, !.email = store[id].email, !.pc = "pt_save"]]
  /\ UNCHANGED <<now, store, session, nextId, nextToken, started, consumed, issued>>

\* user.save() settles.
postResetToken_save(c) ==
  /\ req[c].pc = "pt_save"
  /\ \/ /\ req' = [req EXCEPT ![c] = CallNext(@)]
        /\ UNCHANGED <<store, consumed>>
     \/ /\ Exists(store, req[c].doc)
        /\ store' = [store EXCEPT ![req[c].doc] = ClearResetFields(@, req[c].password[1])]
        /\ consumed' = consumed \cup {req[c].token}
        /\ req' = [req EXCEPT ![c] = [@ EXCEPT !.saved = TRUE, !.pc = "pt_logIn"]]
     \/ /\ ~Exists(store, req[c].doc)
        /\ req' = [req EXCEPT ![c] = [@ EXCEPT !.saved = TRUE, !.pc = "pt_logIn"]]
        /\ UNCHANGED <<store, consumed>>
  /\ UNCHANGED <<now, session, nextId, nextToken, started, issued>>

\* req.logIn(user, cb) calls back.
postResetToken_logIn(c) ==
  /\ req[c].pc = "pt_logIn"
  /\ \/ /\ req' = [req EXCEPT ![c] = CallNext(@)]
        /\ UNCHANGED session
     \/ /\ session' = [session EXCEPT ![c] = [id |-> req[c].doc, email |-> req[c].email]]
        /\ req' = [req EXCEPT ![c] = [@ EXCEPT !.loggedIn = req[c].doc,
                                                !.user = session'[c],
                                                !.pc = "pt_mail"]]
  /\ UNCHANGED <<now, store, nextId, nextToken, started, consumed, issued>>

\* sendResetPasswordEmail: the first transporter.sendMail settles.
postResetToken_sendMail(c) ==
  /\ req[c].pc = "pt_mail"
  /\ \E o \in MailResults(req[c].email) :
       req' = [req EXCEPT ![c] =
         CASE o = "ok" -> Send([@ EXCEPT !.mails = @ + 1], Resp(200, "Password updated"))
           [] o = "selfsigned" -> [@ EXCEPT !.mails = @ + 1, !.pc = "pt_retry"]
           [] OTHER -> Stop([@ EXCEPT !.mails = @ + 1])]
  /\ UNCHANGED <<now, store, session, nextId, nextToken, started, consumed, issued>>

\* the retry settles; its rejection reaches .catch(err => next(err))
postResetToken_retryMail(c) ==
  /\ req[c].pc = "pt_retry"
  /\ \E o \in MailResults(req[c].email) :
       req' = [req EXCEPT ![c] =
         IF o = "ok" THEN Send([@ EXCEPT !.mails = @ + 1], Resp(200, "Password updated"))
                     ELSE CallNext([@ EXCEPT !.mails = @ + 1])]
  /\ UNCHANGED <<now, store, session, nextId, nextToken, started, consumed, issued>>

(* ---------------------------- POST /signup ---------------------------- *)
\* Phone and card numbers are sequences of digits.
PhoneOk == <<1, 4, 1, 5, 5, 5, 5, 2, 6, 7, 1>>
PhoneBad == <<1, 4>>
PhoneInputs == {PhoneOk, PhoneBad}
CardOk == <<4, 1, 1, 1, 1, 1, 1, 1, 1, 1, 1, 1, 1, 1, 1, 1>>
CardBad == <<4, 1, 1, 1, 1, 1, 1, 1, 1, 1, 1, 1, 1, 1, 1, 2>>
CardInputs == {CardOk, CardBad}

\* validator's isMobilePhone: digits only, of a mobile number's length.
isMobilePhone(p) == Len(p) >= 7 /\ Len(p) <= 15

\* validator's isCreditCard: the Luhn checksum over the digits, every second
\* digit from the right doubled.
RECURSIVE LuhnSum(_, _)
LuhnSum(d, i) ==
  IF i > Len(d) THEN 0
  ELSE LET x == d[Len(d) + 1 - i]
           y == IF i % 2 = 0 THEN (IF 2 * x > 9 THEN 2 * x - 9 ELSE 2 * x) ELSE x
       IN  y + LuhnSum(d, i + 1)
isCreditCard(d) == Len(d) = 16 /\ LuhnSum(d, 1) % 10 = 0

postSignupErrors(phone, creditCard, email) ==
  Messages(<< <<isMobilePhone(phone), "Phone is not valid">>,
              <<isCreditCard(creditCard), "Credit Card Number is not valid">>,
              <<isEmail(email), "Email is not valid">> >>)

\* The entries of req.body.credits: one credit type is enough to tell the
\* entries that ask for a report from those that do not.
CreditTypes == {"basic"}
CreditRequests == [creditType : CreditTypes, generateReport : BOOLEAN]
SeqsUpTo(S, n) == UNION {[1..k -> S] : k \in 0..n}

\* req.body.credits: undefined, or an Array of entries.
CreditInputs == {Absent} \cup {Some(l) : l \in SeqsUpTo(CreditRequests, MaxCredits)}

\* The two of them the signups send where the credits are not the subject:
\* none, and one entry that asks for a report.
PlainCreditInputs ==
  {Absent, Some(<< [creditType |-> "basic", generateReport |-> TRUE] >>)}

\* "Date.now() + (2 * 365 * 24 * 60 * 60 * 1000)": kept as the pair of the
\* Date.now() and the years added, the sum in milliseconds being wider than
\* 32 bits.
CreditYears == 2
Expiry(t) == [from |-> t, years |-> CreditYears]

\* "new Report(report)": the _id is fresh; it is written as the pair of the
\* user's _id and the position in tempReports, which no other Report has.
NewReport(uid, k, credit) ==
  [id |-> <<uid, k>>, reportType |-> credit.creditType,
   registration |-> "ABC-1234", stolen |-> FALSE]

\* tempReports after the first n entries of credits.
RECURSIVE tempReports(_, _, _)
tempReports(credits, n, uid) ==
  IF n = 0 THEN <<>>
  ELSE LET before == tempReports(credits, n - 1, uid)
       IN  IF credits[n].generateReport
           THEN Append(before, NewReport(uid, Len(before) + 1, credits[n]))
           ELSE before

\* hasReport and reportId declared outside the forEach callback: they keep
\* the values an earlier entry gave them.
NewCredit_hoisted(credit, reports, t) ==
  [creditType |-> credit.creditType, expiresAt |-> Expiry(t),
   hasReport |-> IF reports # <<>> THEN Some(TRUE) ELSE Absent,
   reportId |-> IF reports # <<>> THEN Some(reports[Len(reports)].id) ELSE Absent]

\* "new Credit({ creditType, expiresAt, hasReport, reportId })" for one
\* entry, reports being tempReports after the entry's own push.
NewCredit(credit, reports, t) ==
  [creditType |-> credit.creditType, expiresAt |-> Expiry(t),
   hasReport |-> IF credit.generateReport THEN Some(TRUE) ELSE Absent,
   reportId |-> IF credit.generateReport THEN Some(reports[Len(reports)].id)
                                         ELSE Absent]

\* tempCredits after the first n entries of credits.
RECURSIVE tempCredits(_, _, _, _)
tempCredits(credits, n, uid, t) ==
  IF n = 0 THEN <<>>
  ELSE Append(tempCredits(credits, n - 1, uid, t),
              NewCredit(credits[n], tempReports(credits, n, uid), t))

\* "if (credits && credits instanceof Array)": the credits and the reports
\* the new User gets.
UserCredits(credits, uid, t) ==
  IF credits = Absent THEN Absent
  ELSE Some(tempCredits(credits[1], Len(credits[1]), uid, t))
UserReports(credits, uid) ==
  IF credits = Absent THEN Absent
  ELSE Some(tempReports(credits[1], Len(credits[1]), uid))

\* Validation, the credits and reports, "new User" (which draws the _id),
\* and the findOne is issued; req.body.credits is one of creditInputs.
postSignupFrom(c, creditInputs) ==
  /\ CanStart(c)
  /\ started' = started + 1
  /\ \E e \in EmailInputs, ph \in PhoneInputs, cc \in CardInputs, cr \in creditInputs :
       IF postSignupErrors(ph, cc, e) # <<>>
       THEN /\ req' = [req EXCEPT ![c] =
                 Invalid(Arrive("postSignup", c), postSignupErrors(ph, cc, e))]
            /\ UNCHANGED nextId
       ELSE /\ nextId <= MaxUsers
            /\ req' = [req EXCEPT ![c] =
                 [Arrive("postSignup", c) EXCEPT
                    !.email = Some(normalizeEmail(e)),
                    !.credits = cr,
                    !.newUser = NewUser(normalizeEmail(e),
                                        UserCredits(cr, nextId, now),
                                        UserReports(cr, nextId)),
                    !.doc = nextId,
                    !.pc = "su_findOne"]]
            /\ nextId' = nextId + 1
  /\ UNCHANGED <<now, store, session, nextToken, consumed, issued>>

postSignup(c) == postSignupFrom(c, PlainCreditInputs)

\* The signup with every list of credits up to MaxCredits entries.
postSignupCredits(c) == postSignupFrom(c, CreditInputs)

\* A signup that never looks at existingUser.
EmailTaken_never(s, email) == FALSE

\* "if (existingUser)": the findOne found a user with this email.
EmailTaken(s, email) == FindByEmail(s, email) # {}

\* User.findOne({ email }, cb) calls back.
postSignup_findOne(c) ==
  /\ req[c].pc = "su_findOne"
  /\ \/ req' = [req EXCEPT ![c] = CallNext(@)]
     \/ /\ EmailTaken(store, req[c].email[1])
        /\ req' = [req EXCEPT ![c] = Send(@, Resp(400, "Email already registered"))]
     \/ /\ ~EmailTaken(store, req[c].email[1])
        /\ req' = [req EXCEPT ![c] = [@ EXCEPT !.pc = "su_save"]]
  /\ UNCHANGED <<now, store, session, nextId, nextToken, started, consumed, issued>>

\* A schema without the unique index.
UniqueEmailIndex_none == FALSE

\* The schema declares the email unique: the insert of a second document
\* with a stored email fails.
UniqueEmailIndex == TRUE

\* user.save(cb) calls back.
postSignup_save(c) ==
  /\ req[c].pc = "su_save"
  /\ \/ /\ req' = [req EXCEPT ![c] = CallNext(@)]
        /\ UNCHANGED store
     \/ /\ UniqueEmailIndex => FindByEmail(store, req[c].email[1]) = {}
        /\ store' = [store EXCEPT ![req[c].doc] = req[c].newUser]
        /\ req' = [req EXCEPT ![c] = [@ EXCEPT !.saved = TRUE, !.pc = "su_logIn"]]
  /\ UNCHANGED <<now, session, nextId, nextToken, started, consumed, issued>>

\* A logIn callback that answers before it looks at err.
postSignup_logIn_ignoreErr(c) ==
  /\ req[c].pc = "su_logIn"
  /\ \/ /\ req' = [req EXCEPT ![c] = Send(@, Resp(200, "Signup successful"))]
        /\ UNCHANGED session
     \/ /\ session' = [session EXCEPT ![c] = [id |-> req[c].doc, email |-> req[c].email]]
        /\ req' = [req EXCEPT ![c] =
             Send([@ EXCEPT !.loggedIn = req[c].doc, !.user = session'[c]],
                  Resp(200, "Signup successful"))]
  /\ UNCHANGED <<now, store, nextId, nextToken, started, consumed, issued>>

\* req.logIn(user, cb) calls back.
postSignup_logIn(c) ==
  /\ req[c].pc = "su_logIn"
  /\ \/ /\ req' = [req EXCEPT ![c] = CallNext(@)]
        /\ UNCHANGED session
     \/ /\ session' = [session EXCEPT ![c] = [id |-> req[c].doc, email |-> req[c].email]]
        /\ req' = [req EXCEPT ![c] =
             Send([@ EXCEPT !.loggedIn = req[c].doc, !.user = session'[c]],
                  Resp(200, "Signup successful"))]
  /\ UNCHANGED <<now, store, nextId, nextToken, started, consumed, issued>>

(* ----------------------------- POST /login ---------------------------- *)
postLoginErrors(email, password) ==
  Messages(<< <<isEmail(email), "Email is not valid">>,
              <<password # <<>>, "Password cannot be blank">> >>)

\* The local strategy: the stored users with this email and this password.
Authenticate(s, email, password) ==
  {id \in FindByEmail(s, email) : s[id].password = Some(password)}

postLogin(c) ==
  /\ CanStart(c)
  /\ started' = started + 1
  /\ \E e \in EmailInputs, p \in PasswordInputs \cup {<<>>} :
       req' = [req EXCEPT ![c] =
         IF postLoginErrors(e, p) # <<>>
         THEN Invalid(Arrive("postLogin", c), postLoginErrors(e, p))
         ELSE [Arrive("postLogin", c) EXCEPT !.email = Some(normalizeEmail(e)),
                                         !.password = Some(p),
                                         !.pc = "li_auth"]]
  /\ UNCHANGED <<now, store, session, nextId, nextToken, consumed, issued>>

\* passport.authenticate('local', cb) calls back.
postLogin_authenticate(c) ==
  /\ req[c].pc = "li_auth"
  /\ \/ req' = [req EXCEPT ![c] = CallNext(@)]
     \/ /\ Authenticate(store, req[c].email[1], req[c].password[1]) = {}
        /\ req' = [req EXCEPT ![c] = Send(@, Resp(401, "info"))]
     \/ \E id \in Authenticate(store, req[c].email[1], req[c].password[1]) :
          req' = [req EXCEPT ![c] = [@ EXCEPT !.doc = id, !.pc = "li_logIn"]]
  /\ UNCHANGED <<now, store, session, nextId, nextToken, started, consumed, issued>>

\* A logIn callback that answers before it looks at err.
postLogin_logIn_ignoreErr(c) ==
  /\ req[c].pc = "li_logIn"
  /\ \/ /\ req' = [req EXCEPT ![c] = Send([@ EXCEPT !.err = TRUE], Resp(200, "Signed in"))]
        /\ UNCHANGED session
     \/ /\ session' = [session EXCEPT ![c] = [id |-> req[c].doc, email |-> req[c].email]]
        /\ req' = [req EXCEPT ![c] =
             Send([@ EXCEPT !.loggedIn = req[c].doc, !.user = session'[c]],
                  Resp(200, "Signed in"))]
  /\ UNCHANGED <<now, store, nextId, nextToken, started, consumed, issued>>

\* req.logIn(user, cb) calls back.
postLogin_logIn(c) ==
  /\ req[c].pc = "li_logIn"
  /\ \/ /\ req' = [req EXCEPT ![c] = CallNext(@)]
        /\ UNCHANGED session
     \/ /\ session' = [session EXCEPT ![c] = [id |-> req[c].doc, email |-> req[c].email]]
        /\ req' = [req EXCEPT ![c] =
             Send([@ EXCEPT !.loggedIn = req[c].doc, !.user = session'[c]],
                  Resp(200, "Signed in"))]
  /\ UNCHANGED <<now, store, nextId, nextToken, started, consumed, issued>>

(* ----------------------------- GET /logout ---------------------------- *)
\* req.logout() clears req.user and the login of the session object in
\* memory, then req.session.destroy is issued.
logout(c) ==
  /\ CanStart(c)
  /\ started' = started + 1
  /\ req' = [req EXCEPT ![c] =
       [Arrive("logout", c) EXCEPT !.user = NoUser, !.pc = "lo_destroy"]]
  /\ UNCHANGED <<now, store, session, nextId, nextToken, consumed, issued>>

\* A callback that answers 'Signed out' whatever err is.
logout_destroy_ignoreErr(c) ==
  /\ req[c].pc = "lo_destroy"
  /\ \/ /\ req' = [req EXCEPT ![c] =
             Send([@ EXCEPT !.user = NoUser, !.err = TRUE], Resp(200, "Signed out"))]
        /\ session' \in {session, [session EXCEPT ![c] = NoUser]}
     \/ /\ req' = [req EXCEPT ![c] =
             Send([@ EXCEPT !.user = NoUser], Resp(200, "Signed out"))]
        /\ session' = [session EXCEPT ![c] = NoUser]
  /\ UNCHANGED <<now, store, nextId, nextToken, started, consumed, issued>>

\* req.session.destroy(cb) calls back: req.user = null, then the response.
\* The stored session is gone when destroy succeeded; when it failed the
\* store may still hold it, login included.
logout_destroy(c) ==
  /\ req[c].pc = "lo_destroy"
  /\ \/ /\ req' = [req EXCEPT ![c] =
             Send([@ EXCEPT !.user = NoUser, !.err = TRUE],
                  Resp(500, "Signed out with errors"))]
        /\ session' \in {session, [session EXCEPT ![c] = NoUser]}
     \/ /\ req' = [req EXCEPT ![c] =
             Send([@ EXCEPT !.user = NoUser], Resp(200, "Signed out"))]
        /\ session' = [session EXCEPT ![c] = NoUser]
  /\ UNCHANGED <<now, store, nextId, nextToken, started, consumed, issued>>

(* ------------------------ POST /password/update ----------------------- *)
postUpdatePasswordErrors(password, confirmPassword) ==
  Messages(<< <<Len(password) >= MinPasswordLen,
                "Password must be at least 8 characters long">>,
              <<confirmPassword = password, "Passwords do not match">> >>)

\* The route is served to an authenticated session; req.user is its email.
postUpdatePassword(c) ==
  /\ CanStart(c)
  /\ session[c] # NoUser
  /\ started' = started + 1
  /\ \E p \in PasswordInputs, cp \in PasswordInputs :
       req' = [req EXCEPT ![c] =
         IF postUpdatePasswordErrors(p, cp) # <<>>
         THEN Invalid(Arrive("postUpdatePassword", c),
                   postUpdatePasswordErrors(p, cp))
         ELSE [Arrive("postUpdatePassword", c) EXCEPT !.email = session[c].email,
                                                  !.password = Some(p),
                                                  !.pc = "up_findOne"]]
  /\ UNCHANGED <<now, store, session, nextId, nextToken, consumed, issued>>

\* User.findOne({ email: req.user }, cb) calls back; with no user found,
\* "user.password = ..." throws inside the callback.
postUpdatePassword_findOne(c) ==
  /\ req[c].pc = "up_findOne"
  /\ \/ req' = [req EXCEPT ![c] = CallNext(@)]
     \/ /\ FindByEmail(store, req[c].email[1]) = {}
        /\ req' = [req EXCEPT ![c] = [@ EXCEPT !.crashed = TRUE, !.pc = "done"]]
     \/ \E id \in FindByEmail(store, req[c].email[1]) :
          req' = [req EXCEPT ![c] = [@ EXCEPT !.doc = id, !.pc = "up_save"]]
  /\ UNCHANGED <<now, store, session, nextId, nextToken, started, consumed, issued>>

\* user.save(cb) calls back.
postUpdatePassword_save(c) ==
  /\ req[c].pc = "up_save"
  /\ \/ /\ req' = [req EXCEPT ![c] = CallNext(@)]
        /\ UNCHANGED store
     \/ /\ Exists(store, req[c].doc)
        /\ store' = [store EXCEPT ![req[c].doc].password = req[c].password]
        /\ req' = [req EXCEPT ![c] =
             Send([@ EXCEPT !.saved = TRUE], Resp(200, "Password updated"))]
     \/ /\ ~Exists(store, req[c].doc)
        /\ req' = [req EXCEPT ![c] =
             Send([@ EXCEPT !.saved = TRUE], Resp(200, "Password updated"))]
        /\ UNCHANGED store
  /\ UNCHANGED <<now, session, nextId, nextToken, started, consumed, issued>>

(* ---------------------------- DELETE /delete -------------------------- *)
deleteAccount(c) ==
  /\ CanStart(c)
  /\ session[c] # NoUser
  /\ started' = started + 1
  /\ req' = [req EXCEPT ![c] =
       [Arrive("deleteAccount", c) EXCEPT !.email = session[c].email, !.pc = "del_deleteOne"]]
  /\ UNCHANGED <<now, store, session, nextId, nextToken, consumed, issued>>

\* User.deleteOne({ email: req.user }, cb) calls back: one matching document,
\* if there is any, is gone; then req.logout() and the response.
deleteAccount_deleteOne(c) ==
  /\ req[c].pc = "del_deleteOne"
  /\ \/ /\ req' = [req EXCEPT ![c] = CallNext(@)]
        /\ UNCHANGED <<store, session>>
     \/ /\ \/ \E id \in FindByEmail(store, req[c].email[1]) :
                store' = [store EXCEPT ![id] = NoDoc]
           \/ /\ FindByEmail(store, req[c].email[1]) = {}
              /\ UNCHANGED store
        /\ session' = [session EXCEPT ![c] = NoUser]
        /\ req' = [req EXCEPT ![c] =
             Send([@ EXCEPT !.user = NoUser], Resp(200, "Account removed"))]
  /\ UNCHANGED <<now, nextId, nextToken, started, consumed, issued>>

(* ------------------------------ the clock ----------------------------- *)
Advance ==
  /\ now < MaxTicks * Tick
  /\ now' = now + Tick
  /\ UNCHANGED <<store, session, req, nextId, nextToken, started, consumed, issued>>

(* --------------------------- specification ---------------------------- *)
\* The store after client 1 signed up as a@x: one document without password
\* and reset fields, and client 1's session logged in as that user.
FirstEmail == <<"a", "@", "x">>

\* The record of client 2's reset request for a@x, answered "Email sent" at
\* time 0 with the first token.
FirstReset ==
  [Begin("postReset") EXCEPT !.pc = "done", !.email = Some(FirstEmail), !.doc = 1,
                             !.newToken = 1, !.saved = TRUE, !.mails = 1, !.nsend = 1,
                             !.resp = Resp(200, "Email sent")]

\* The record of the completion client 2 then made with that token and the
\* password PwdA, answered "Password updated" at time 0.
FirstCompletion ==
  [Begin("postResetToken") EXCEPT !.pc = "done", !.email = Some(FirstEmail),
                                  !.password = Some(PwdA), !.token = 1, !.doc = 1,
                                  !.user = [id |-> 1, email |-> Some(FirstEmail)],
                                  !.saved = TRUE, !.loggedIn = 1, !.mails = 1,
                                  !.nsend = 1, !.resp = Resp(200, "Password updated")]

\* Three starts: right after the signup of a@x by client 1; after client 2
\* has since had a reset request for a@x served; and after client 2 has then
\* completed that reset, which signed it in as a@x too.
Init ==
  /\ now = 0
  /\ nextId = 2
  /\ started = 0
  /\ \/ /\ store = [id \in Ids |-> IF id = 1 THEN NewUser(FirstEmail, Absent, Absent)
                                             ELSE NoDoc]
        /\ session = [c \in Clients |->
                        IF c = 1 THEN [id |-> 1, email |-> Some(FirstEmail)] ELSE NoUser]
        /\ req = [c \in Clients |-> IdleReq]
        /\ nextToken = 1
        /\ issued = [id \in Ids |-> <<>>]
        /\ consumed = {}
     \/ /\ store = [id \in Ids |->
                      IF id = 1
                      THEN SetResetFields(NewUser(FirstEmail, Absent, Absent), 1, 0)
                      ELSE NoDoc]
        /\ session = [c \in Clients |->
                        IF c = 1 THEN [id |-> 1, email |-> Some(FirstEmail)] ELSE NoUser]
        /\ req = [c \in Clients |-> IF c = 2 THEN FirstReset ELSE IdleReq]
        /\ nextToken = 2
        /\ issued = [id \in Ids |-> IF id = 1 THEN <<1>> ELSE <<>>]
        /\ consumed = {}
     \/ /\ store = [id \in Ids |->
                      IF id = 1
                      THEN [NewUser(FirstEmail, Absent, Absent) EXCEPT
                              !.password = Some(PwdA)]
                      ELSE NoDoc]
        /\ session = [c \in Clients |-> [id |-> 1, email |-> Some(FirstEmail)]]
        /\ req = [c \in Clients |-> IF c = 2 THEN FirstCompletion ELSE IdleReq]
        /\ nextToken = 2
        /\ issued = [id \in Ids |-> IF id = 1 THEN <<1>> ELSE <<>>]
        /\ consumed = {1}

Next ==
  \/ Advance
  \/ \E c \in Clients :
       \/ postReset(c)
       \/ postReset_findOne(c)
       \/ postReset_save(c)
       \/ postReset_sendMail(c)
       \/ postReset_retryMail(c)
       \/ getResetToken(c)
       \/ getResetToken_exec(c)
       \/ postResetToken(c)
       \/ postResetToken_findOne(c)
       \/ postResetToken_save(c)
       \/ postResetToken_logIn(c)
       \/ postResetToken_sendMail(c)
       \/ postResetToken_retryMail(c)
       \/ postSignup(c)
       \/ postSignup_findOne(c)
       \/ postSignup_save(c)
       \/ postSignup_logIn(c)
       \/ postLogin(c)
       \/ postLogin_authenticate(c)
       \/ postLogin_logIn(c)
       \/ logout(c)
       \/ logout_destroy(c)
       \/ postUpdatePassword(c)
       \/ postUpdatePassword_findOne(c)
       \/ postUpdatePassword_save(c)
       \/ deleteAccount(c)
       \/ deleteAccount_deleteOne(c)

Spec == Init /\ [][Next]_vars

\* The signup handler alone, from the state right after the signup of a@x,
\* with every list of credits.
InitCredits ==
  /\ now = 0
  /\ nextId = 2
  /\ started = 0
  /\ store = [id \in Ids |-> IF id = 1 THEN NewUser(FirstEmail, Absent, Absent) ELSE NoDoc]
  /\ session = [c \in Clients |->
                  IF c = 1 THEN [id |-> 1, email |-> Some(FirstEmail)] ELSE NoUser]
  /\ req = [c \in Clients |-> IdleReq]
  /\ nextToken = 1
  /\ issued = [id \in Ids |-> <<>>]
  /\ consumed = {}

NextCredits ==
  \/ Advance
  \/ \E c \in Clients :
       \/ postSignupCredits(c)
       \/ postSignup_findOne(c)
       \/ postSignup_save(c)
       \/ postSignup_logIn(c)

SpecCredits == InitCredits /\ [][NextCredits]_vars

(* ------------------------------ claims -------------------------------- *)
InvalidToken == Resp(400, "Invalid or expired token")

\* Some stored user has this token and an expiry later than t.
Unexpired(token, t) ==
  \E id \in Ids : /\ store[id] # NoDoc
                  /\ store[id].passwordResetToken = <<token>>
                  /\ store[id].passwordResetExpires # <<>>
                  /\ t < store[id].passwordResetExpires[1]

\* C1: whenever the store answers the token lookup of GET or POST
\* /password/reset/:token, the token is accepted if and only if some stored
\* user has it with an expiry strictly later than the Date.now() of the
\* request; otherwise, and so at now = expiry, the answer is 400 "Invalid or
\* expired token".
C1_AcceptedIffUnexpired ==
  [][\A c \in Clients :
       /\ (req[c].pc = "gt_exec" /\ req'[c].pc = "done" /\ ~req'[c].nexted)
            => req'[c].resp = IF Unexpired(req[c].token, req[c].qnow)
                              THEN Resp(200, "Valid token") ELSE InvalidToken
       /\ (req[c].pc = "pt_findOne" /\ req'[c].pc # "pt_findOne" /\ ~req'[c].nexted)
            => IF Unexpired(req[c].token, req[c].qnow)
               THEN req'[c].pc = "pt_save" /\ req'[c].resp = NoResp
               ELSE req'[c].resp = InvalidToken]_vars

\* A validation was answered 400 for a token whose stored expiry is the very
\* Date.now() of the request, while a completion with a token was accepted.
C1_Witness ==
  /\ \E c \in Clients :
       /\ req[c].kind = "getResetToken"
       /\ req[c].resp = InvalidToken
       /\ \E id \in Ids : /\ store[id].passwordResetToken = <<req[c].token>>
                          /\ store[id].passwordResetExpires = <<req[c].qnow>>
  /\ \E c \in Clients : req[c].pc = "pt_save"

\* C2: the save of a reset completion leaves the stored user without token
\* and without expiry; from then on no stored user holds the consumed token,
\* no token lookup of a validation or completion accepts it, and a request
\* that presents it gets no success response, saves nothing and logs nobody
\* in.
C2_ConsumedTokenNeverAccepted ==
  /\ [][\A c \in Clients :
          /\ (req[c].pc = "pt_save" /\ req'[c].pc = "pt_logIn")
               => /\ store'[req[c].doc].passwordResetToken = <<>>
                  /\ store'[req[c].doc].passwordResetExpires = <<>>
          /\ (req[c].pc \in {"gt_exec", "pt_findOne"} /\ req[c].token \in consumed)
               => /\ req'[c].resp.status # 200
                  /\ req'[c].pc # "pt_save"]_vars
  /\ [](\A c \in Clients :
          req[c].stale
            => /\ req[c].resp.status # 200
               /\ req[c].pc \notin {"pt_save", "pt_logIn"}
               /\ ~req[c].saved
               /\ req[c].loggedIn = 0)
  /\ [](\A t \in consumed : \A k \in 0..MaxTicks : ~Unexpired(t, k * Tick))

\* A completion saved, and a later request presenting its token got the 400.
C2_Witness ==
  \E c \in Clients :
    /\ req[c].stale
    /\ req[c].kind = "postResetToken"
    /\ req[c].resp = InvalidToken
    /\ \E d \in Clients : d # c /\ req[d].kind = "postResetToken" /\ req[d].saved
                          /\ req[d].token = req[c].token

\* C3: every stored user has its reset token and its reset-token expiry both
\* present or both absent.
C3_TokenAndExpiryTogether ==
  \A id \in Ids :
    store[id] # NoDoc
      => ((store[id].passwordResetToken = <<>>) <=> (store[id].passwordResetExpires = <<>>))

\* A reset has completed, a user holds a token with its expiry, and a user
\* has a password set.
C3_Witness ==
  /\ consumed # {}
  /\ \E id \in Ids : store[id] # NoDoc /\ store[id].passwordResetToken # <<>>
                     /\ store[id].passwordResetExpires # <<>>
  /\ \E id \in Ids : store[id] # NoDoc /\ store[id].password # <<>>

\* C4: a reset request that has run to its end has sent exactly one response.
C4_ExactlyOneResponse ==
  \A c \in Clients :
    (req[c].kind = "postReset" /\ req[c].pc = "done") => req[c].nsend = 1

\* A reset request never sends a second response.
NoSecondResetResponse ==
  \A c \in Clients : req[c].kind = "postReset" => req[c].nsend <= 1

\* C5: a reset request that passed validation and has run to its end was
\* answered, by a response or through next(err).
C5_ResetRequestAnswered ==
  \A c \in Clients :
    (req[c].kind = "postReset" /\ req[c].pc = "done")
      => (req[c].resp # NoResp \/ req[c].nexted)

\* C6: a reset completion that saved the record and established the session
\* and has run to its end has answered 200 "Password updated" and has not
\* handed an error to next.
C6_SuccessWhateverTheMail ==
  \A c \in Clients :
    (req[c].kind = "postResetToken" /\ req[c].loggedIn # 0 /\ req[c].pc = "done")
      => (req[c].resp = Resp(200, "Password updated") /\ ~req[c].nexted)

\* C7: a reset request or reset completion that has called sendMail has
\* completed its save before.
C7_MailOnlyAfterSave ==
  \A c \in Clients :
    (req[c].kind \in {"postReset", "postResetToken"} /\ req[c].mails > 0)
      => req[c].saved

\* C8: a token lookup, at any time, matches a user only with the token the
\* last saved reset request wrote for that user: every token written for the
\* user before it is rejected.
C8_OnlyLatestTokenHonoured ==
  \A id \in Ids : \A t \in 0..(nextToken - 1) : \A k \in 0..MaxTicks :
    ( /\ store[id] # NoDoc
      /\ store[id].passwordResetToken = <<t>>
      /\ store[id].passwordResetExpires # <<>>
      /\ k * Tick < store[id].passwordResetExpires[1] )
      => (issued[id] # <<>> /\ issued[id][Len(issued[id])] = t)

\* Two reset requests saved a token for one user, the second is unexpired,
\* and a validation of the first was answered 400.
C8_Witness ==
  \E id \in Ids :
    /\ Len(issued[id]) = 2
    /\ Unexpired(issued[id][2], now)
    /\ \E c \in Clients : /\ req[c].kind = "getResetToken"
                          /\ req[c].token = issued[id][1]
                          /\ req[c].resp = InvalidToken

\* C9: when the store answers the lookup of a signup whose normalized email
\* is the email of a stored user, the answer is 400 "Email already
\* registered"; whatever the lookup's outcome, that step writes nothing to
\* the store and leaves every session as it is, and a signup so answered has
\* saved nothing and logged nobody in.
C9_DuplicateSignupRejected ==
  /\ [][\A c \in Clients :
          ( /\ req[c].pc = "su_findOne"
            /\ req'[c].pc # "su_findOne"
            /\ \E id \in Ids : store[id] # NoDoc /\ store[id].email = req[c].email )
            => /\ store' = store
               /\ session' = session
               /\ req'[c].pc = "done"
               /\ ~req'[c].nexted => req'[c].resp = Resp(400, "Email already registered")]_vars
  /\ [](\A c \in Clients :
          req[c].resp = Resp(400, "Email already registered")
            => ~req[c].saved /\ req[c].loggedIn = 0)

\* A signup whose normalized email is a stored user's got the 400.
C9_Witness ==
  \E c \in Clients :
    /\ req[c].kind = "postSignup"
    /\ req[c].resp = Resp(400, "Email already registered")
    /\ \E id \in Ids : store[id] # NoDoc /\ store[id].email = req[c].email

\* C10: a signup answered 200 "Signup successful" has saved its user, has
\* logged in as that user, its client's session is that user's, and no error
\* went to next.
C10_SignupSuccessAfterSaveAndLogin ==
  \A c \in Clients :
    (req[c].kind = "postSignup" /\ req[c].resp.status = 200)
      => /\ req[c].saved
         /\ req[c].loggedIn = req[c].doc
         /\ session[c] = [id |-> req[c].doc, email |-> req[c].email]
         /\ ~req[c].nexted

\* A signup was answered 200 and its user is in the store.
C10_Witness ==
  \E c \in Clients :
    /\ req[c].kind = "postSignup"
    /\ req[c].resp = Resp(200, "Signup successful")
    /\ store[req[c].doc] # NoDoc
    /\ store[req[c].doc].email = req[c].email

\* C11: when the store answers the lookup of a reset request whose normalized
\* email no stored user has, the request ends there with the 401 that names
\* that email; the step writes nothing to the store, and the request has
\* saved nothing and called sendMail not once.
C11_UnknownEmailNoTokenNoMail ==
  /\ [][\A c \in Clients :
          ( /\ req[c].pc = "pr_findOne"
            /\ req'[c].pc # "pr_findOne"
            /\ ~\E id \in Ids : store[id] # NoDoc /\ store[id].email = req[c].email )
            => /\ store' = store
               /\ issued' = issued
               /\ req'[c].pc = "done"
               /\ ~req'[c].err =>
                    req'[c].resp = [status |-> 401, msg |-> "Email not found",
                                    arg |-> req[c].email]]_vars
  /\ [](\A c \in Clients :
          (req[c].kind = "postReset" /\ req[c].resp.status = 401)
            => /\ req[c].resp.arg = req[c].email
               /\ ~req[c].saved
               /\ req[c].mails = 0
               /\ req[c].nsend = 1)

\* A reset request for b@x, which nobody has, got the 401 naming b@x.
C11_Witness ==
  \E c \in Clients :
    /\ req[c].kind = "postReset"
    /\ req[c].resp.status = 401
    /\ req[c].resp.arg = << <<"b", "@", "x">> >>
    /\ ~\E id \in Ids : store[id] # NoDoc /\ store[id].email = req[c].email

\* C12: for every list of credit requests a signup passed validation with,
\* the new user has one Credit per entry; the i-th Credit has hasReport set
\* and the id of one of the Reports built in this signup as reportId exactly
\* when the i-th entry has generateReport, and has neither otherwise; the
\* Reports are as many as the entries with generateReport; and the save
\* stores these credits and reports.
C12_CreditsMatchRequests ==
  \A c \in Clients :
    (req[c].kind = "postSignup" /\ req[c].doc # 0 /\ req[c].credits # Absent) =>
      LET asked == req[c].credits[1]
          u == req[c].newUser
      IN  /\ u.credits # Absent
          /\ u.reports # Absent
          /\ Len(u.credits[1]) = Len(asked)
          /\ \A i \in DOMAIN asked :
               IF asked[i].generateReport
               THEN /\ u.credits[1][i].hasReport = <<TRUE>>
                    /\ u.credits[1][i].reportId # Absent
                    /\ \E k \in DOMAIN u.reports[1] :
                         u.reports[1][k].id = u.credits[1][i].reportId[1]
               ELSE /\ u.credits[1][i].hasReport = Absent
                    /\ u.credits[1][i].reportId = Absent
          /\ Len(u.reports[1]) = Cardinality({i \in DOMAIN asked : asked[i].generateReport})
          /\ (req[c].saved /\ store[req[c].doc] # NoDoc) =>
               /\ store[req[c].doc].credits = u.credits
               /\ store[req[c].doc].reports = u.reports

\* A signup whose first entry asks for a report and whose second does not
\* has been saved.
C12_Witness ==
  \E c \in Clients :
    /\ req[c].kind = "postSignup"
    /\ req[c].saved
    /\ req[c].credits # Absent
    /\ Len(req[c].credits[1]) = 2
    /\ req[c].credits[1][1].generateReport
    /\ ~req[c].credits[1][2].generateReport
    /\ store[req[c].doc].reports # Absent

\* C13: a request to postSignup, postLogin, postUpdatePassword, postReset or
\* postResetToken that violates a validation rule is answered once, with 400
\* and the message of the first violated rule, and ends there: it holds no
\* document, saved nothing, drew no token, logged nobody in, called sendMail
\* not once and raised nothing; the step that starts it leaves the store,
\* the sessions, the issued and consumed tokens and the counters of _ids and
\* tokens as they were.
C13_InvalidRequestHasNoEffect ==
  /\ [](\A c \in Clients :
          req[c].errors # <<>> =>
            /\ req[c].kind \in {"postSignup", "postLogin", "postUpdatePassword",
                                "postReset", "postResetToken"}
            /\ req[c].pc = "done"
            /\ req[c].resp = [status |-> 400, msg |-> req[c].errors[1], arg |-> Absent]
            /\ req[c].nsend = 1
            /\ req[c].doc = 0
            /\ req[c].newToken = 0
            /\ req[c].loggedIn = 0
            /\ req[c].mails = 0
            /\ ~req[c].saved
            /\ ~req[c].nexted
            /\ ~req[c].crashed
            /\ ~req[c].err)
  /\ [][( /\ started' # started
          /\ \E c \in Clients : /\ req[c].pc \in {"idle", "done"}
                                /\ req'[c].errors # <<>>
                                /\ \A d \in Clients \ {c} : req'[d] = req[d] )
          => UNCHANGED <<store, session, nextId, nextToken, consumed, issued>>]_vars

\* A signup with a bad phone number and a bad email, but a good card, was
\* answered with the phone's message.
C13_Witness ==
  \E c \in Clients :
    /\ req[c].kind = "postSignup"
    /\ req[c].errors = <<"Phone is not valid", "Email is not valid">>
    /\ req[c].resp.msg = "Phone is not valid"

\* C14: a logout has cleared req.user before it is answered, whether the
\* destroy of the session succeeds or fails; its one response is 500 'Signed
\* out with errors' exactly when the destroy failed and 200 'Signed out'
\* exactly when it did not, and after a destroy that succeeded the client's
\* session holds no login.
C14_LogoutClearsUser ==
  \A c \in Clients :
    req[c].kind = "logout" =>
      /\ req[c].user = NoUser
      /\ req[c].pc = "done" =>
           /\ req[c].nsend = 1
           /\ req[c].err <=> req[c].resp = [status |-> 500,
                                            msg |-> "Signed out with errors",
                                            arg |-> Absent]
           /\ ~req[c].err <=> req[c].resp = [status |-> 200, msg |-> "Signed out",
                                             arg |-> Absent]
           /\ ~req[c].err => session[c] = NoUser

\* The first request served is the logout of client 1, who was signed in;
\* the destroy failed.
C14_Witness ==
  /\ started = 1
  /\ req[1].kind = "logout"
  /\ req[1].resp.status = 500
  /\ req[1].user = NoUser

\* C15: a login that authentication returned no user for is answered 401
\* with the strategy's info and nothing else: it logged nobody in and left
\* req.user as it arrived. While a login is in flight the client's session
\* changes only in the logIn step, which a user returned by authentication
\* leads to, and becomes that user's. A login answered 200 'Signed in' has
\* logged that user in before.
C15_LoginSessionOnlyForUser ==
  /\ [](\A c \in Clients :
          req[c].kind = "postLogin" =>
            /\ req[c].resp.status = 401 =>
                 /\ req[c].resp = [status |-> 401, msg |-> "info", arg |-> Absent]
                 /\ req[c].nsend = 1
                 /\ req[c].doc = 0
                 /\ req[c].loggedIn = 0
                 /\ req[c].user = session[c]
            /\ req[c].loggedIn # 0 => req[c].doc # 0 /\ req[c].loggedIn = req[c].doc
            /\ req[c].resp.status = 200 =>
                 /\ req[c].resp.msg = "Signed in"
                 /\ req[c].doc # 0
                 /\ req[c].loggedIn = req[c].doc
                 /\ session[c].id = req[c].doc)
  /\ [][\A c \in Clients :
          (req[c].kind = "postLogin" /\ req[c].pc # "done" /\ session'[c] # session[c])
            => /\ req[c].pc = "li_logIn"
               /\ req[c].doc # 0
               /\ session'[c].id = req[c].doc
               /\ req'[c].loggedIn = req[c].doc]_vars

\* A login with the email of a registered user was answered 401.
C15_Witness ==
  \E c \in Clients :
    /\ req[c].kind = "postLogin"
    /\ req[c].resp.status = 401
    /\ \E id \in Ids : store[id] # NoDoc /\ store[id].email = req[c].email

\* C16: a reset completion answered 400 'Invalid or expired token' did that
\* and nothing else: it sent one response, saved nothing, logged nobody in,
\* called sendMail not once and handed no error to next.
C16_InvalidTokenOnlyThe400 ==
  \A c \in Clients :
    (req[c].kind = "postResetToken" /\ req[c].resp = InvalidToken) =>
      /\ req[c].nsend = 1
      /\ ~req[c].saved
      /\ req[c].loggedIn = 0
      /\ req[c].mails = 0
      /\ ~req[c].nexted

\* C17: of the reset completions that present the same token, at most one
\* has saved the new password and been logged in.
C17_TokenAuthorizesOnce ==
  \A c, d \in Clients :
    ( /\ c # d
      /\ req[c].kind = "postResetToken"
      /\ req[d].kind = "postResetToken"
      /\ req[c].token = req[d].token
      /\ req[c].saved /\ req[c].loggedIn # 0 )
      => ~(req[d].saved /\ req[d].loggedIn # 0)

\* C18: no two stored users have the same email, and of the signups with the
\* same normalized email at most one has been answered 'Signup successful'.
C18_EmailsUnique ==
  /\ \A i, j \in Ids :
       (i # j /\ store[i] # NoDoc /\ store[j] # NoDoc) => store[i].email # store[j].email
  /\ \A c, d \in Clients :
       ( /\ c # d
         /\ req[c].kind = "postSignup"
         /\ req[d].kind = "postSignup"
         /\ req[c].email # Absent
         /\ req[c].email = req[d].email
         /\ req[c].resp = [status |-> 200, msg |-> "Signup successful", arg |-> Absent] )
         => req[d].resp.status # 200

\* Two signups with the same email both found the email free; one has saved
\* its user since, the other is about to save.
C18_Witness ==
  \E c, d \in Clients :
    /\ c # d
    /\ req[c].kind = "postSignup"
    /\ req[c].saved
    /\ store[req[c].doc] # NoDoc
    /\ req[d].kind = "postSignup"
    /\ req[d].pc = "su_save"
    /\ req[d].email = req[c].email

\* C19: a password update that passed validation and has ended threw no
\* exception that nothing caught, and was answered or handed to next; if it
\* was answered it is with 200 'Password updated' after its save. No step of
\* a password update brings a user record into being.
C19_UpdateEndsDefined ==
  /\ [](\A c \in Clients :
          (req[c].kind = "postUpdatePassword" /\ req[c].pc = "done"
             /\ req[c].errors = <<>>) =>
            /\ ~req[c].crashed
            /\ req[c].nsend = 1 \/ req[c].nexted
            /\ req[c].nsend = 1 =>
                 /\ req[c].saved
                 /\ req[c].resp = [status |-> 200, msg |-> "Password updated",
                                   arg |-> Absent])
  /\ [][\A c \in Clients :
          (req[c].kind = "postUpdatePassword" /\ req'[c] # req[c]) =>
            \A id \in Ids : store[id] = NoDoc => store'[id] = NoDoc]_vars

====
